---- MODULE Spec2Model ----
(***************************************************************************)
(* Model of src/app.py: the "Mental Health Early Signs Detector" page.     *)
(*                                                                         *)
(* The page is a Streamlit script.  Pressing the Analyze button reruns the *)
(* script with the widgets' current values; the handler of the button      *)
(* (app.py 185-211) validates the text, calls the Hugging Face Inference   *)
(* API (call_hf_inference, 84-116) or a local pipeline (classify_local,    *)
(* 137-146) and renders the returned dict.  The response of the endpoint   *)
(* is reduced to a (label, score) pair by _extract_label_and_score (55-81).*)
(*                                                                         *)
(* Python values are modelled as tagged records, so that isinstance(), the *)
(* "in" test on a dict, float() and str() are computed as Python computes  *)
(* them.  Scores are integers standing for the floats the endpoint sends:  *)
(* the code only converts, compares and returns them.                      *)
(***************************************************************************)
EXTENDS Integers, Sequences, FiniteSets, TLC

VARIABLES
    text,        \* value of the text area at the last press of Analyze
    backend,     \* value of the sidebar radio at the last press of Analyze
    pipe,        \* st.cache_resource of get_local_pipeline: "unloaded", "loaded" or the error string
    responses,   \* what the endpoint will answer to the next requests, in order
    faced,       \* the value of responses when the last call_hf_inference started
    sent,        \* the POST requests issued by the last press of Analyze
    sleeps,      \* the delays slept by the last press of Analyze
    localCalls,  \* number of calls of the local pipeline made by the last press
    ret,         \* how the last backend call ended: not made, returned a dict, raised
    display,     \* what the left column shows after the last press
    pred,        \* argument of _extract_label_and_score (unit specification)
    extracted    \* its outcome (unit specification)

vars == <<text, backend, pipe, responses, faced, sent, sleeps,
          localCalls, ret, display, pred, extracted>>

appVars == <<text, backend, pipe, responses, faced, sent, sleeps,
             localCalls, ret, display>>

unitVars == <<pred, extracted>>

---------------------------------------------------------------------------
(* Bounds of the model.                                                    *)

MaxScore == 2

MaxLen == 2

MaxArr == 3

MaxTextLen == 2

MaxResponses == 3

---------------------------------------------------------------------------
(* Python values (what r.json() returns).                                  *)

Str(s) == [t |-> "str", s |-> s]

Num(n) == [t |-> "num", n |-> n]

Null == [t |-> "null"]

List(items) == [t |-> "list", items |-> items]

Dict(map) == [t |-> "dict", map |-> map]

IsList(v) == v.t = "list"

IsDict(v) == v.t = "dict"

HasKey(d, k) == k \in DOMAIN d.map

\* dict.get(k, default)
Get(d, k, default) == IF HasKey(d, k) THEN d.map[k] ELSE default

\* Python truthiness of a value that is a list or None
Truthy(v) == IF IsList(v) THEN Len(v.items) > 0 ELSE v.t # "null"

Scores == 0..MaxScore

\* The strings float() parses: the decimal numerals of the modelled scores.
NumericStr(s) == \E n \in Scores : ToString(n) = s

\* s[i:j] of Python, for 0 <= i <= j
Slice(s, i, j) ==
    LET hi == IF j < Len(s) THEN j ELSE Len(s)
    IN  IF i >= hi THEN "" ELSE SubSeq(s, i + 1, hi)

Returned(v) == [raised |-> FALSE, value |-> v]

Raised(e) == [raised |-> TRUE, exc |-> e]

\* float(v): a number is kept, a numeral is parsed, every other string is a
\* ValueError and every other type a TypeError.
PyFloat(v) ==
    CASE v.t = "num" -> Returned(v.n)
      [] v.t = "str" -> IF NumericStr(v.s)
                        THEN Returned(CHOOSE n \in Scores : ToString(n) = v.s)
                        ELSE Raised("ValueError")
      [] OTHER -> Raised("TypeError")

\* str(v) of a label: a str is returned as it is, a number is printed.
PyStr(v) ==
    CASE v.t = "str" -> v
      [] v.t = "num" -> Str(ToString(v.n))
      [] v.t = "null" -> Str("None")
      [] OTHER -> Str("<object>")

---------------------------------------------------------------------------
(* _extract_label_and_score                                                *)

\* (label, float(score)): the tuple is built only if float() returns.
Pair(label, score) ==
    LET f == PyFloat(score)
    IN  IF f.raised THEN f ELSE Returned([label |-> label, score |-> f.value])

RECURSIVE ArgMaxFrom_LastMax(_, _, _)
\* Variant: the candidate is replaced by an equal key too, so that a tie goes
\* to the last occurrence.
ArgMaxFrom_LastMax(scores, i, b) ==
    IF i > Len(scores) THEN b
    ELSE ArgMaxFrom_LastMax(scores, i + 1, IF scores[i].n >= scores[b].n THEN i ELSE b)

RECURSIVE ArgMaxFrom(_, _, _)
\* max(range(len(scores)), key=lambda i: scores[i]) from index i on, best so
\* far at index b: max() replaces its candidate only by a strictly larger key.
ArgMaxFrom(scores, i, b) ==
    IF i > Len(scores) THEN b
    ELSE ArgMaxFrom(scores, i + 1, IF scores[i].n > scores[b].n THEN i ELSE b)

ArgMax(scores) == ArgMaxFrom(scores, 2, 1)

Fallback == Returned([label |-> Str("UNKNOWN"), score |-> 0])

ExtractDict(p) ==
    LET labels == Get(p, "labels", Null)
        scores == Get(p, "scores", Null)
    IN  IF /\ Truthy(labels) /\ Truthy(scores)
           /\ Len(labels.items) = Len(scores.items)
           /\ Len(labels.items) > 0
        THEN LET idx == ArgMax(scores.items)
             IN  Pair(PyStr(labels.items[idx]), scores.items[idx])
        ELSE Fallback

ExtractList(p) ==
    IF Len(p.items) = 0 THEN Raised("IndexError")
    ELSE LET first == p.items[1]
         IN  IF IsDict(first) /\ HasKey(first, "label") /\ HasKey(first, "score")
             THEN Pair(first.map["label"], first.map["score"])
             ELSE IF /\ IsList(first)
                     /\ Len(first.items) > 0
                     /\ IsDict(first.items[1])
                  THEN LET d == first.items[1]
                       IN  Pair(Get(d, "label", Str("LABEL_0")),
                                Get(d, "score", Num(0)))
                  ELSE Fallback

_extract_label_and_score(p) ==
    IF IsList(p) THEN ExtractList(p)
    ELSE IF IsDict(p) THEN ExtractDict(p)
    ELSE Fallback

---------------------------------------------------------------------------
(* The responses _extract_label_and_score is applied to.                   *)

SeqsUpTo(S, n) == UNION {[1..k -> S] : k \in 0..n}

Labels == {"LABEL_0", "LABEL_1"}

Item(l, s) == Dict([label |-> Str(l), score |-> Num(s)])

GoodItems == {Item(l, s) : l \in Labels, s \in Scores}

\* Items a JSON body may hold that are not {label, score} with a number.
OddItems ==
    { Dict([label |-> Str("LABEL_0")]),
      Dict([label |-> Str("LABEL_0"), score |-> Str("abc")]),
      Dict([label |-> Str("LABEL_0"), score |-> Str("1")]),
      Dict([label |-> Str("LABEL_0"), score |-> Null]),
      Dict([error |-> Str("x")]),
      Str("x") }

FlatLists == {List(s) : s \in SeqsUpTo(GoodItems \cup OddItems, MaxLen)}

NestedLists == {List(<<f>>) : f \in FlatLists}

\* Mappings with parallel arrays; the arrays may differ in length.
ParallelArrays ==
    { Dict([labels |-> List(ls), scores |-> List(ss)]) :
        ls \in SeqsUpTo({Str(l) : l \in Labels}, MaxArr),
        ss \in SeqsUpTo({Num(n) : n \in Scores}, MaxArr) }

OtherBodies ==
    { Dict([error |-> Str("x")]),
      Dict([labels |-> List(<<Str("LABEL_0")>>)]),
      Str("x"), Num(1), Null }

Preds == FlatLists \cup NestedLists \cup ParallelArrays \cup OtherBodies

NotApplied == [applied |-> FALSE]

---------------------------------------------------------------------------
(* Unit specification of _extract_label_and_score.                         *)

Idle == [kind |-> "none"]

NotCalled == [called |-> FALSE]

EXAMPLES ==
    << "Lately I can't sleep and I feel empty most of the time.",
       "I had a good day today and enjoyed a long walk with friends.",
       "Sometimes I think about giving up, but I'm trying to stay hopeful." >>

\* EXAMPLES[0], the initial value of the text area
DefaultText == EXAMPLES[1]

AppInit ==
    /\ text = DefaultText
    /\ backend = "Hugging Face API"
    /\ pipe = "unloaded"
    /\ faced = <<>>
    /\ sent = <<>>
    /\ sleeps = <<>>
    /\ localCalls = 0
    /\ ret = NotCalled
    /\ display = Idle

InitExtract ==
    /\ AppInit
    /\ responses = <<>>
    /\ pred \in Preds
    /\ extracted = NotApplied

Apply ==
    /\ extracted = NotApplied
    /\ extracted' = _extract_label_and_score(pred)
    /\ UNCHANGED <<pred, appVars>>

NextExtract == Apply

SpecExtract == InitExtract /\ [][NextExtract]_vars

---------------------------------------------------------------------------
(* The endpoint, as requests.post sees it.                                 *)

MODEL_ID == "hugps/mh-bert"

INFERENCE_URL == "https://api-inference.huggingface.co/models/" \o MODEL_ID

\* The timeout the Analyze handler passes (app.py 191).
CallTimeout == 60

\* r.text[:400]
ShortBodyLen == 400

RECURSIVE Rep(_, _)
Rep(c, n) ==
    IF n = 0 THEN ""
    ELSE IF n % 2 = 0 THEN LET h == Rep(c, n \div 2) IN h \o h
    ELSE c \o Rep(c, n - 1)

LongBody == Rep("x", ShortBodyLen + 1)

\* requests.post raises requests.exceptions.Timeout
TimedOut == [kind |-> "Timeout"]

\* requests.post raises another RequestException, printed as e
NetworkDown == [kind |-> "RequestException", e |-> "connection refused"]

\* requests.post returns r; json is how r.json() ends
Response(status, body, json) ==
    [kind |-> "response", status_code |-> status, text |-> body, json |-> json]

NotJson == Raised("JSONDecodeError")

Json(v) == Returned(v)

Ok200(v) == Response(200, "<json>", Json(v))

\* A well-formed two-class answer, best class first, as the API sends it.
GoodPred == List(<<Item("LABEL_1", 2), Item("LABEL_0", 0)>>)

\* 200 bodies the page may meet: the three documented shapes, JSON of no
\* documented shape, and text that is no JSON.
SampleBodies ==
    { Ok200(GoodPred),
      Ok200(List(<<Item("LABEL_0", 0), Item("LABEL_1", 2)>>)),
      Ok200(List(<<GoodPred>>)),
      Ok200(Dict([labels |-> List(<<Str("LABEL_0"), Str("LABEL_1")>>),
                  scores |-> List(<<Num(0), Num(2)>>)])),
      Ok200(List(<<>>)),
      Ok200(List(<<List(<<>>)>>)),
      Ok200(List(<<List(<<Dict([error |-> Str("x")])>>)>>)),
      Ok200(List(<<Dict([label |-> Str("LABEL_0")])>>)),
      Ok200(List(<<Dict([label |-> Str("LABEL_0"), score |-> Str("abc")])>>)),
      Ok200(List(<<Dict([label |-> Str("LABEL_0"), score |-> Null])>>)),
      Ok200(List(<<Str("x")>>)),
      Ok200(Dict([error |-> Str("x")])),
      Ok200(Dict([labels |-> List(<<Str("LABEL_0")>>),
                  scores |-> List(<<Num(1), Num(2)>>)])),
      Ok200(Str("x")),
      Ok200(Null),
      Response(200, "<html>", NotJson),
      Response(200, "", NotJson) }

\* Responses of another status; the body of an error may itself be JSON.
ErrorResponses ==
    { Response(503, "", NotJson),
      Response(404, "Not Found", NotJson),
      Response(404, "{\"error\": \"x\"}", Json(Dict([error |-> Str("x")]))),
      Response(401, "", NotJson),
      Response(500, "", NotJson),
      Response(500, LongBody, NotJson) }

Outcomes == {TimedOut, NetworkDown} \cup ErrorResponses \cup SampleBodies

---------------------------------------------------------------------------
(* call_hf_inference                                                       *)

Failure(msg) == [ok |-> FALSE, error |-> msg]

Success(label, score, raw) ==
    [ok |-> TRUE, label |-> label, score |-> score, raw |-> raw]

PostRequest(txt, timeout) ==
    [url |-> INFERENCE_URL, json |-> [inputs |-> txt], timeout |-> timeout]

\* Variant: 404 is taken for the loading status.
HandleResponse_NotFoundAsLoading(r) ==
    IF r.status_code \in {503, 404}
    THEN Returned(Failure("Model is loading on Hugging Face (503). Try again shortly."))
    ELSE IF r.status_code # 200
    THEN Returned(Failure("HF API error " \o ToString(r.status_code) \o ": "
                            \o Slice(r.text, 0, ShortBodyLen)))
    ELSE IF r.json.raised
    THEN Returned(Failure("Non-JSON response from HF API."))
    ELSE LET e == _extract_label_and_score(r.json.value)
         IN  IF e.raised THEN e
             ELSE Returned(Success(e.value.label, e.value.score, r.json.value))

\* Variant: the test of the status against 200 is missing, so that the body
\* of an error status is parsed like an answer.
HandleResponse_NoStatusCheck(r) ==
    IF r.status_code = 503
    THEN Returned(Failure("Model is loading on Hugging Face (503). Try again shortly."))
    ELSE IF r.json.raised
    THEN Returned(Failure("Non-JSON response from HF API."))
    ELSE LET e == _extract_label_and_score(r.json.value)
         IN  IF e.raised THEN e
             ELSE Returned(Success(e.value.label, e.value.score, r.json.value))

\* What the function does after requests.post returned r.
HandleResponse(r) ==
    IF r.status_code = 503
    THEN Returned(Failure("Model is loading on Hugging Face (503). Try again shortly."))
    ELSE IF r.status_code # 200
    THEN Returned(Failure("HF API error " \o ToString(r.status_code) \o ": "
                            \o Slice(r.text, 0, ShortBodyLen)))
    ELSE IF r.json.raised
    THEN Returned(Failure("Non-JSON response from HF API."))
    ELSE LET e == _extract_label_and_score(r.json.value)
         IN  IF e.raised THEN e
             ELSE Returned(Success(e.value.label, e.value.score, r.json.value))

\* How the function ends, o being what requests.post did.
Attempt(o) ==
    CASE o.kind = "Timeout" ->
            Returned(Failure("Request to Hugging Face timed out."))
      [] o.kind = "RequestException" ->
            Returned(Failure("Network error: " \o o.e))
      [] OTHER -> HandleResponse(o)

\* Variant: after an attempt that failed the function sleeps and posts once
\* more, if the endpoint has another answer.
call_hf_inference_Retries(txt, timeout, resps) ==
    LET a == Attempt(Head(resps))
        again == ~a.raised /\ ~a.value.ok /\ Len(resps) > 1
        post == PostRequest(txt, timeout)
    IN  [ sent   |-> IF again THEN <<post, post>> ELSE <<post>>,
          sleeps |-> IF again THEN <<3>> ELSE <<>>,
          rest   |-> IF again THEN Tail(Tail(resps)) ELSE Tail(resps),
          ret    |-> IF again THEN Attempt(resps[2]) ELSE a ]

\* One call against an endpoint that answers its successive requests with
\* resps (not empty).  The function posts once and never sleeps.
call_hf_inference(txt, timeout, resps) ==
    [ sent   |-> <<PostRequest(txt, timeout)>>,
      sleeps |-> <<>>,
      rest   |-> Tail(resps),
      ret    |-> Attempt(Head(resps)) ]

---------------------------------------------------------------------------
(* The local backend: get_local_pipeline and classify_local                *)

\* The printed message of an exception of type exc.
ExcText(exc) == "<" \o exc \o ">"

\* get_local_pipeline returns the pipeline or the string of its failure;
\* st.cache_resource keeps what the first call returned.
LoadOutcomes == {"loaded", "Local pipeline failed to load: " \o ExcText("ImportError")}

get_local_pipeline(cached, load) == IF cached = "unloaded" THEN load ELSE cached

PipeRaises == [kind |-> "raise", e |-> ExcText("RuntimeError")]

PipeReturns(out, repr) == [kind |-> "out", out |-> out, repr |-> repr]

\* How pipe(text, truncation=True) may end; repr is how Python prints out.
LocalOutcomes ==
    { PipeRaises,
      PipeReturns(List(<<Item("LABEL_1", 2)>>), "[{'label': 'LABEL_1', 'score': 2}]"),
      PipeReturns(List(<<Dict([label |-> Str("LABEL_0")])>>), "[{'label': 'LABEL_0'}]"),
      PipeReturns(List(<<Dict([label |-> Str("LABEL_0"), score |-> Str("abc")])>>),
                  "[{'label': 'LABEL_0', 'score': 'abc'}]"),
      PipeReturns(List(<<Str("x")>>), "['x']"),
      PipeReturns(List(<<>>), "[]"),
      PipeReturns(Dict([error |-> Str("x")]), "{'error': 'x'}") }

\* Every exception of the body is caught: the function always returns a dict.
classify_local(lo) ==
    IF lo.kind = "raise" THEN Failure("Local inference error: " \o lo.e)
    ELSE IF IsList(lo.out) /\ Len(lo.out.items) > 0
    THEN LET d == lo.out.items[1]
         IN  IF ~IsDict(d)
             THEN Failure("Local inference error: " \o ExcText("AttributeError"))
             ELSE LET f == PyFloat(Get(d, "score", Num(0)))
                  IN  IF f.raised
                      THEN Failure("Local inference error: " \o ExcText(f.exc))
                      ELSE Success(Get(d, "label", Str("UNKNOWN")), f.value, lo.out)
    ELSE Failure("Unexpected local output: " \o lo.repr)

---------------------------------------------------------------------------
(* The Analyze button                                                      *)

Whitespace == {" ", "\t", "\n", "\r"}

RECURSIVE LStrip(_)
LStrip(s) ==
    IF Len(s) > 0 /\ Slice(s, 0, 1) \in Whitespace
    THEN LStrip(Slice(s, 1, Len(s))) ELSE s

RECURSIVE RStrip(_)
RStrip(s) ==
    IF Len(s) > 0 /\ Slice(s, Len(s) - 1, Len(s)) \in Whitespace
    THEN RStrip(Slice(s, 0, Len(s) - 1)) ELSE s

\* str.strip()
Strip(s) == RStrip(LStrip(s))

\* Variant: the text is tested without being stripped.
Accepted_NoStrip(t) == t # ""

\* "if not text.strip()": the handler accepts every text that is not blank.
Accepted(t) == Strip(t) # ""

Chars == {"a", " "}

RECURSIVE Strings(_)
Strings(n) ==
    IF n = 0 THEN {""}
    ELSE LET S == Strings(n - 1) IN S \cup {s \o c : s \in S, c \in Chars}

Texts == Strings(MaxTextLen) \cup {DefaultText}

Backends == {"Hugging Face API", "Local CPU (transformers)"}

\* result.get(k, default) on the dict a backend returned
RGet(r, k, default) == IF k \in DOMAIN r THEN r[k] ELSE default

\* Lines 200-211.  An exception that left the backend call ends the script
\* run: Streamlit shows it in place of the rest of the page.
Render(r) ==
    IF r.raised THEN [kind |-> "exception", exc |-> r.exc]
    ELSE IF RGet(r.value, "ok", FALSE)
    THEN [kind |-> "success",
          label |-> RGet(r.value, "label", Str("UNKNOWN")),
          score |-> RGet(r.value, "score", 0),
          raw |-> RGet(r.value, "raw", Null)]
    ELSE [kind |-> "error", msg |-> RGet(r.value, "error", "Unknown error")]

Warning == [kind |-> "warning", msg |-> "Please enter some text."]

\* Blank text: a warning, and no backend is called.
PressRejected(t, b) ==
    /\ ~Accepted(t)
    /\ text' = t
    /\ backend' = b
    /\ sent' = <<>>
    /\ sleeps' = <<>>
    /\ localCalls' = 0
    /\ ret' = NotCalled
    /\ display' = Warning
    /\ UNCHANGED <<pipe, faced>>

\* The Hugging Face backend, the endpoint answering with resps.
PressHF(t, resps) ==
    /\ Accepted(t)
    /\ LET c == call_hf_inference(Strip(t), CallTimeout, resps)
       IN  /\ sent' = c.sent
           /\ sleeps' = c.sleeps
           /\ ret' = c.ret
           /\ display' = Render(c.ret)
    /\ text' = t
    /\ backend' = "Hugging Face API"
    /\ faced' = resps
    /\ localCalls' = 0
    /\ UNCHANGED pipe

\* The local backend: the pipeline loads as load (if not cached) and, if it
\* loaded, answers as lo.
PressLocal(t, load, lo) ==
    /\ Accepted(t)
    /\ LET p == get_local_pipeline(pipe, load)
           r == IF p # "loaded" THEN Failure(p) ELSE classify_local(lo)
       IN  /\ pipe' = p
           /\ localCalls' = IF p = "loaded" THEN 1 ELSE 0
           /\ ret' = Returned(r)
           /\ display' = Render(Returned(r))
    /\ text' = t
    /\ backend' = "Local CPU (transformers)"
    /\ sent' = <<>>
    /\ sleeps' = <<>>
    /\ UNCHANGED faced

\* One press of Analyze, the endpoint deciding its answer when asked.
Analyze ==
    /\ \E t \in Texts :
          \/ \E b \in Backends : PressRejected(t, b)
          \/ \E o \in Outcomes : PressHF(t, <<o>>)
          \/ \E load \in LoadOutcomes, lo \in LocalOutcomes : PressLocal(t, load, lo)
    /\ UNCHANGED <<responses, unitVars>>

Init ==
    /\ AppInit
    /\ responses = <<>>
    /\ pred = Null
    /\ extracted = NotApplied

Next == Analyze

Spec == Init /\ [][Next]_vars

---------------------------------------------------------------------------
(* The same button against an endpoint whose answers are scripted.         *)

ScriptOutcomes ==
    { TimedOut, NetworkDown,
      Response(503, "", NotJson),
      Response(404, "Not Found", NotJson),
      Response(500, "", NotJson),
      Response(200, "<html>", NotJson),
      Ok200(GoodPred) }

Scripts == SeqsUpTo(ScriptOutcomes, MaxResponses) \ {<<>>}

InitScript ==
    /\ AppInit
    /\ responses \in Scripts
    /\ pred = Null
    /\ extracted = NotApplied

AnalyzeScripted ==
    /\ responses # <<>>
    /\ PressHF(DefaultText, responses)
    /\ responses' = call_hf_inference(Strip(DefaultText), CallTimeout, responses).rest
    /\ UNCHANGED unitVars

NextScript == AnalyzeScripted

SpecScript == InitScript /\ [][NextScript]_vars

---------------------------------------------------------------------------
(* Vocabulary of the properties.                                           *)

\* Analyze has been pressed.
Pressed == display # Idle

\* The last press called call_hf_inference.
HFCalled == sent # <<>>

\* The dict call_hf_inference returned, when it returned one.
HFReturned == HFCalled /\ ~ret.raised

IsResponse(o, status) == o.kind = "response" /\ o.status_code = status

\* The outcomes of an attempt the specification calls retryable.
Retryable(o) ==
    o.kind \in {"Timeout", "RequestException"} \/ IsResponse(o, 503)

TimeoutError == "Request to Hugging Face timed out."

NonJsonError == "Non-JSON response from HF API."

\* The message every non-200 status other than 503 is reported with.
StatusError(r) ==
    "HF API error " \o ToString(r.status_code) \o ": " \o Slice(r.text, 0, ShortBodyLen)

IsScoredLabel(v) ==
    /\ IsDict(v)
    /\ DOMAIN v.map = {"label", "score"}
    /\ v.map["label"].t = "str"
    /\ v.map["score"].t = "num"

IsFlatShape(v) ==
    /\ IsList(v)
    /\ Len(v.items) > 0
    /\ \A i \in 1..Len(v.items) : IsScoredLabel(v.items[i])

IsNestedShape(v) ==
    IsList(v) /\ Len(v.items) = 1 /\ IsFlatShape(v.items[1])

IsParallelShape(v) ==
    /\ IsDict(v)
    /\ DOMAIN v.map = {"labels", "scores"}
    /\ IsList(v.map["labels"]) /\ IsList(v.map["scores"])
    /\ Len(v.map["labels"].items) = Len(v.map["scores"].items)
    /\ Len(v.map["labels"].items) > 0

KnownShape(v) == IsFlatShape(v) \/ IsNestedShape(v) \/ IsParallelShape(v)

\* The label -> score pairs a response of a known shape carries.
ClassPairs(v) ==
    IF IsFlatShape(v)
    THEN {<<v.items[i].map["label"].s, v.items[i].map["score"].n>> :
             i \in 1..Len(v.items)}
    ELSE IF IsNestedShape(v)
    THEN {<<v.items[1].items[i].map["label"].s, v.items[1].items[i].map["score"].n>> :
             i \in 1..Len(v.items[1].items)}
    ELSE {<<v.map["labels"].items[i].s, v.map["scores"].items[i].n>> :
             i \in 1..Len(v.map["labels"].items)}

\* A well-formed two-class response: two pairs, one per class.
TwoClass(v) ==
    /\ KnownShape(v)
    /\ Cardinality(ClassPairs(v)) = 2
    /\ Cardinality({c[1] : c \in ClassPairs(v)}) = 2
    /\ IsFlatShape(v) => Len(v.items) = 2
    /\ IsNestedShape(v) => Len(v.items[1].items) = 2
    /\ IsParallelShape(v) => Len(v.map["labels"].items) = 2

\* The label -> score pairs of what _extract_label_and_score returned.
ResultPairs(e) == {<<e.value.label.s, e.value.score>>}

Applied == extracted # NotApplied

---------------------------------------------------------------------------
(* Properties                                                              *)

\* C1: a call that faces the responses [503, 503, 200] returns the success
\* result of the third attempt, having posted three times and slept exactly
\* twice, the second delay not shorter than the first.
C1_RetriesUntilSuccess ==
    ( /\ HFCalled
      /\ Len(faced) = 3
      /\ IsResponse(faced[1], 503)
      /\ IsResponse(faced[2], 503)
      /\ faced[3] = Ok200(GoodPred) )
    => /\ ~ret.raised
       /\ ret.value.ok
       /\ ret.value.raw = GoodPred
       /\ Len(sent) = 3
       /\ Len(sleeps) = 2
       /\ sleeps[2] >= sleeps[1]

\* C2: a call with attempt budget N all of whose N attempts end in a
\* retryable outcome posts exactly N times and then fails with an error that
\* is not the per-attempt timeout error (N is the length of the all-retryable
\* script the call faces).
C2_ExhaustsBudget ==
    ( /\ HFCalled
      /\ \A i \in 1..Len(faced) : Retryable(faced[i]) )
    => /\ Len(sent) = Len(faced)
       /\ ~ret.raised
       /\ ~ret.value.ok
       /\ ret.value.error # TimeoutError

C4_NonJsonFailsAtOnce ==
    (HFCalled /\ IsResponse(faced[1], 200) /\ faced[1].json.raised)
    => /\ ret = Returned(Failure(NonJsonError))
       /\ DOMAIN ret.value = {"ok", "error"}
       /\ Len(sent) = 1
       /\ sleeps = <<>>
       /\ responses = Tail(faced)
       /\ display = [kind |-> "error", msg |-> NonJsonError]

C4_Witness ==
    /\ HFCalled
    /\ IsResponse(faced[1], 200)
    /\ faced[1].json.raised
    /\ Len(faced) = 2
    /\ faced[2] = Ok200(GoodPred)
    /\ ~ret.value.ok

\* C5: on a 200 whose JSON body has none of the known shapes the call returns
\* an error; it returns no success carrying a default label or score.
C5_UnknownShapeIsError ==
    ( /\ HFCalled
      /\ IsResponse(faced[1], 200)
      /\ ~faced[1].json.raised
      /\ ~KnownShape(faced[1].json.value) )
    => /\ ~ret.raised
       /\ ~ret.value.ok

\* C6: for a well-formed two-class response the extraction yields one pair
\* per class, the pairs of the response, and yields the same for every other
\* shape and order that carries the same pairs.
C6_ShapeAndOrderIndependent ==
    (Applied /\ TwoClass(pred))
    => /\ ~extracted.raised
       /\ \A q \in Preds :
             (TwoClass(q) /\ ClassPairs(q) = ClassPairs(pred))
                 => _extract_label_and_score(q) = extracted
       /\ ResultPairs(extracted) = ClassPairs(pred)

\* C7: whatever the request did, no exception leaves call_hf_inference and
\* the press ends with a displayed result or a displayed error message.
C7_NoExceptionEscapes ==
    HFCalled => /\ ~ret.raised
                /\ display.kind \in {"success", "error"}

\* C8 as stated: a text shorter than 3 characters after trimming is rejected
\* and no request and no local pipeline call is made for it.
C8_ShortTextRejected ==
    (Pressed /\ Len(Strip(text)) < 3)
    => /\ display = Warning
       /\ sent = <<>>
       /\ localCalls = 0

\* C8 as amended: a text that is empty after trimming is rejected with the
\* warning, and no request and no local pipeline call is made for it.
C8_BlankTextRejected ==
    (Pressed /\ Len(Strip(text)) = 0)
    => /\ display = Warning
       /\ sent = <<>>
       /\ localCalls = 0
       /\ ret = NotCalled

C8_Witness ==
    /\ Pressed
    /\ Len(text) > 1
    /\ Strip(text) = ""
    /\ display = Warning

\* The smallest index at which scores attains its maximum.
FirstMaxIndex(scores) ==
    CHOOSE i \in 1..Len(scores) :
        /\ \A j \in 1..Len(scores) : scores[j].n <= scores[i].n
        /\ \A j \in 1..(i - 1) : scores[j].n < scores[i].n

\* C9: for a mapping with non-empty labels and scores of equal length the
\* extracted pair is (labels[i], scores[i]), i the smallest index at which
\* scores attains its maximum.
C9_FirstMaximum ==
    (Applied /\ IsParallelShape(pred))
    => LET i == FirstMaxIndex(pred.map["scores"].items)
       IN  extracted = Returned([label |-> pred.map["labels"].items[i],
                                 score |-> pred.map["scores"].items[i].n])

C9_Witness ==
    /\ Applied
    /\ IsParallelShape(pred)
    /\ Len(pred.map["scores"].items) = 3
    /\ pred.map["scores"].items[1].n < pred.map["scores"].items[2].n
    /\ pred.map["scores"].items[2].n = pred.map["scores"].items[3].n
    /\ pred.map["labels"].items[2] # pred.map["labels"].items[3]
    /\ extracted.value.label = pred.map["labels"].items[2]

\* The outcomes of the request after which the function returns an error.
FailureOutcome(o) ==
    \/ o.kind \in {"Timeout", "RequestException"}
    \/ o.kind = "response" /\ o.status_code # 200
    \/ IsResponse(o, 200) /\ o.json.raised

\* C10: a call posts once at most; what it returns is either ok=True with
\* label, score and raw, only after a 200 whose body parsed as JSON, or
\* ok=False with a non-empty error and neither label nor score, and it is
\* the latter after a timeout, a network exception, a 503, any other non-200
\* status and a 200 whose body is no JSON.
C10_TwoForms ==
    HFCalled
    => /\ Len(sent) = 1
       /\ FailureOutcome(faced[1]) => ~ret.raised /\ ~ret.value.ok
       /\ ~ret.raised =>
            \/ /\ ret.value.ok
               /\ DOMAIN ret.value = {"ok", "label", "score", "raw"}
               /\ IsResponse(faced[1], 200)
               /\ ~faced[1].json.raised
               /\ ret.value.raw = faced[1].json.value
            \/ /\ ~ret.value.ok
               /\ DOMAIN ret.value = {"ok", "error"}
               /\ Len(ret.value.error) > 0
               /\ FailureOutcome(faced[1])

C10_Witness ==
    /\ HFReturned
    /\ ret.value.ok
    /\ faced[1] = Ok200(Dict([labels |-> List(<<Str("LABEL_0"), Str("LABEL_1")>>),
                              scores |-> List(<<Num(0), Num(2)>>)]))
    /\ ret.value.label = Str("LABEL_1")

====
